---- MODULE Spec2Model ----
(***************************************************************************)
(* A model of the patient-record API of src/main.py.                       *)
(*                                                                         *)
(* Units.  height is held in centimetres and weight in kilograms, both as  *)
(* integers standing for the floats height/100 (metres) and weight (kg);   *)
(* bmi is held in hundredths (2491 stands for 24.91).                      *)
(*                                                                         *)
(* Optional values.  None is <<>> and a present value v is <<v>>.  A field *)
(* of a PatientUpdate body has one more level: <<>> is "not sent" (unset), *)
(* << <<>> >> is "sent as null" and << <<v>> >> is "sent as v".            *)
(***************************************************************************)
EXTENDS Integers, Sequences, FiniteSets, TLC

VARIABLES
    store,   \* the document in patients.json: a sequence of [id, rec] entries,
             \* in the insertion order json.load / json.dump preserve
    fstate,  \* "ok", "truncated" or "corrupt": whether patients.json parses
    req,     \* the request handled last
    res,     \* the response to it: [status, detail, body]
    pc,      \* concurrent requests: where each request thread is
    job,     \* concurrent requests: the request each thread serves
    data,    \* concurrent requests: each thread's local `data` dictionary
    log      \* concurrent requests: the file operations done so far, in order

vars == <<store, fstate, req, res, pc, job, data, log>>

----------------------------------------------------------------------------
(* The store as an insertion-ordered dictionary *)

Keys(d) == {d[i].id : i \in 1..Len(d)}

IndexOf(d, id) == CHOOSE i \in 1..Len(d) : d[i].id = id

Lookup(d, id) == d[IndexOf(d, id)].rec

\* data[id] = rec : an existing key keeps its place, a new key goes last
Put(d, id, rec) ==
    IF id \in Keys(d)
    THEN [d EXCEPT ![IndexOf(d, id)] = [id |-> id, rec |-> rec]]
    ELSE Append(d, [id |-> id, rec |-> rec])

\* del data[id]
Del(d, id) == SelectSeq(d, LAMBDA e : e.id # id)

\* data.values()
Values(d) == [i \in 1..Len(d) |-> d[i].rec]

----------------------------------------------------------------------------
(* The Patient model: field constraints and computed fields *)

GenderLiteral == {"male", "female", "other"}

AgeGt == 0
AgeLt == 120
HeightGt == 0
WeightGt == 0

\* n / d rounded to the nearest integer, a tie to the even one.  (round(x, 2)
\* rounds the float x, so where weight / height^2 is a tie in decimal the
\* result depends on the float's error; no height and weight used here
\* gives a tie.)
RoundHalfEven(n, d) ==
    LET q == n \div d
        r == n % d
    IN  IF 2 * r < d THEN q
        ELSE IF 2 * r > d THEN q + 1
        ELSE IF q % 2 = 0 THEN q ELSE q + 1

\* Patient.bmi, in hundredths, of a height in cm and a weight in kg:
\* round(weight / (height/100)^2, 2) * 100
Bmi(height, weight) == RoundHalfEven(weight * 1000000, height * height)

VerdictNoGap(bmi) ==
    IF bmi < 1850 THEN "Underweight"
    ELSE IF 1850 <= bmi /\ bmi < 2500 THEN "Normal weight"
    ELSE IF 2500 <= bmi /\ bmi < 2990 THEN "Overweight"
    ELSE "Obesity"

\* Patient.verdict of a bmi in hundredths
Verdict(bmi) ==
    IF bmi < 1850 THEN "Underweight"
    ELSE IF 1850 <= bmi /\ bmi < 2490 THEN "Normal weight"
    ELSE IF 2500 <= bmi /\ bmi < 2990 THEN "Overweight"
    ELSE "Obesity"

PatientValidNoUpperAge(raw) ==
    /\ raw.name # <<>>
    /\ raw.city # <<>>
    /\ raw.age # <<>> /\ raw.age[1] > AgeGt
    /\ raw.gender # <<>> /\ raw.gender[1] \in GenderLiteral
    /\ raw.height # <<>> /\ raw.height[1] > HeightGt
    /\ raw.weight # <<>> /\ raw.weight[1] > WeightGt

\* Patient(**fields): the validation of a raw field set, each field an
\* optional value.  Keys that are no field of Patient (bmi, verdict) are
\* ignored, so a raw field set carries none.
PatientValid(raw) ==
    /\ raw.name # <<>>
    /\ raw.city # <<>>
    /\ raw.age # <<>> /\ raw.age[1] > AgeGt /\ raw.age[1] < AgeLt
    /\ raw.gender # <<>> /\ raw.gender[1] \in GenderLiteral
    /\ raw.height # <<>> /\ raw.height[1] > HeightGt
    /\ raw.weight # <<>> /\ raw.weight[1] > WeightGt

\* PatientUpdate(**body): every field may be unset or null; a value sent for
\* age, gender, height or weight is range-checked, name and city are not
UpdateValid(u) ==
    /\ (u.age # <<>> /\ u.age[1] # <<>>)
          => (u.age[1][1] > AgeGt /\ u.age[1][1] < AgeLt)
    /\ (u.gender # <<>> /\ u.gender[1] # <<>>) => u.gender[1][1] \in GenderLiteral
    /\ (u.height # <<>> /\ u.height[1] # <<>>) => u.height[1][1] > HeightGt
    /\ (u.weight # <<>> /\ u.weight[1] # <<>>) => u.weight[1][1] > WeightGt

ModelDumpStale(raw, old) ==
    [name |-> raw.name[1], city |-> raw.city[1], age |-> raw.age[1],
     gender |-> raw.gender[1], height |-> raw.height[1], weight |-> raw.weight[1],
     bmi |-> old.bmi, verdict |-> old.verdict]

\* patient.model_dump(exclude=['id']) of a validated Patient: the six fields
\* and the two computed fields, without the id.  `old` is the dictionary the
\* Patient was built from, whose bmi and verdict keys the model ignores.
ModelDump(raw, old) ==
    [name |-> raw.name[1], city |-> raw.city[1], age |-> raw.age[1],
     gender |-> raw.gender[1], height |-> raw.height[1], weight |-> raw.weight[1],
     bmi |-> Bmi(raw.height[1], raw.weight[1]),
     verdict |-> Verdict(Bmi(raw.height[1], raw.weight[1]))]

\* the fields Patient declares, of a request body: other keys are ignored
RawOf(p) ==
    [name |-> p.name, city |-> p.city, age |-> p.age, gender |-> p.gender,
     height |-> p.height, weight |-> p.weight]

NoDerived == [bmi |-> 0, verdict |-> ""]

----------------------------------------------------------------------------
(* Responses *)

Response(status, detail, body) == [status |-> status, detail |-> detail, body |-> body]

NoBody == <<>>

\* FastAPI answers a body that fails its model with 422 before the handler runs
Unprocessable == Response(422, "RequestValidationError", NoBody)

\* a pydantic ValidationError raised inside a handler is not caught
HandlerValidationError == Response(500, "ValidationError", NoBody)

NotFound == Response(404, "Patient not found", NoBody)

----------------------------------------------------------------------------
(* The handlers, as functions of the loaded document.  Each gives the       *)
(* response, whether save_data is reached, and the document it would save. *)

Outcome(response, save, doc) == [response |-> response, save |-> save, doc |-> doc]

create_patient_upsert(d, p) ==
    IF ~PatientValid(RawOf(p))
    THEN Outcome(Unprocessable, FALSE, d)
    ELSE Outcome(Response(201, "Patient created successfully", NoBody), TRUE,
                 Put(d, p.id, ModelDump(RawOf(p), NoDerived)))

\* POST /create
create_patient(d, p) ==
    IF ~PatientValid(RawOf(p))
    THEN Outcome(Unprocessable, FALSE, d)
    ELSE IF p.id \in Keys(d)
    THEN Outcome(Response(400, "Patient with this ID already exists", NoBody), FALSE, d)
    ELSE Outcome(Response(201, "Patient created successfully", NoBody), TRUE,
                 Put(d, p.id, ModelDump(RawOf(p), NoDerived)))

\* existing_patient[key] = value for the keys of
\* patient_update.model_dump(exclude_unset=True): the fields PatientUpdate
\* declares that the body sent
MergeField(old, sent) == IF sent # <<>> THEN sent[1] ELSE <<old>>

MergeCityFromName(e, u) ==
    [name   |-> MergeField(e.name, u.name),
     city   |-> MergeField(e.name, u.city),
     age    |-> MergeField(e.age, u.age),
     gender |-> MergeField(e.gender, u.gender),
     height |-> MergeField(e.height, u.height),
     weight |-> MergeField(e.weight, u.weight)]

Merge(e, u) ==
    [name   |-> MergeField(e.name, u.name),
     city   |-> MergeField(e.city, u.city),
     age    |-> MergeField(e.age, u.age),
     gender |-> MergeField(e.gender, u.gender),
     height |-> MergeField(e.height, u.height),
     weight |-> MergeField(e.weight, u.weight)]

\* a merge that checks nothing beyond the fields sent
TouchedOnly(old, sent) == IF sent # <<>> /\ sent[1] # <<>> THEN sent[1] ELSE <<old>>

update_patient_touched_only(d, id, u) ==
    IF ~UpdateValid(u)
    THEN Outcome(Unprocessable, FALSE, d)
    ELSE IF id \notin Keys(d)
    THEN Outcome(NotFound, FALSE, d)
    ELSE Outcome(Response(200, "Patient updated successfully", NoBody), TRUE,
                 Put(d, id,
                     ModelDump([name   |-> TouchedOnly(Lookup(d, id).name, u.name),
                                city   |-> TouchedOnly(Lookup(d, id).city, u.city),
                                age    |-> TouchedOnly(Lookup(d, id).age, u.age),
                                gender |-> TouchedOnly(Lookup(d, id).gender, u.gender),
                                height |-> TouchedOnly(Lookup(d, id).height, u.height),
                                weight |-> TouchedOnly(Lookup(d, id).weight, u.weight)],
                               Lookup(d, id))))

\* PUT /update/{patient_id}
update_patient(d, id, u) ==
    IF ~UpdateValid(u)
    THEN Outcome(Unprocessable, FALSE, d)
    ELSE IF id \notin Keys(d)
    THEN Outcome(NotFound, FALSE, d)
    ELSE IF ~PatientValid(Merge(Lookup(d, id), u))
    THEN Outcome(HandlerValidationError, FALSE, d)
    ELSE Outcome(Response(200, "Patient updated successfully", NoBody), TRUE,
                 Put(d, id, ModelDump(Merge(Lookup(d, id), u), Lookup(d, id))))

delete_patient_idempotent(d, id) ==
    Outcome(Response(200, "Patient deleted successfully", NoBody), TRUE, Del(d, id))

\* DELETE /delete/{patient_id}
delete_patient(d, id) ==
    IF id \notin Keys(d)
    THEN Outcome(NotFound, FALSE, d)
    ELSE Outcome(Response(200, "Patient deleted successfully", NoBody), TRUE, Del(d, id))

view_patient_with_id(d, id) ==
    IF id \in Keys(d)
    THEN Response(200, "", [id |-> id] @@ Lookup(d, id))
    ELSE NotFound

\* GET /patient/{patient_id}
view_patient(d, id) ==
    IF id \in Keys(d)
    THEN Response(200, "", Lookup(d, id))
    ELSE NotFound

----------------------------------------------------------------------------
(* Request inputs *)

Ids == {"P001", "P002"}

InNames == {"Ann", ""}
InCities == {"Pune", ""}
InAges == {0, 30, 120}
InGenders == {"male", "unknown"}
InHeights == {0, 150, 170}
InWeights == {0, 50, 72}

Opt(S) == {<<>>} \cup {<<v>> : v \in S}

BasePatient(id) ==
    [id |-> id, name |-> <<"Ann">>, city |-> <<"Pune">>, age |-> <<30>>,
     gender |-> <<"male">>, height |-> <<170>>, weight |-> <<72>>,
     bmi |-> <<>>, verdict |-> <<>>]

\* the bodies POST /create is tried with: a valid patient with one field
\* replaced by each input value, or left out, or with the keys bmi and
\* verdict added, which are no input fields of Patient
BodiesFor(id) ==
    {[BasePatient(id) EXCEPT !.name = x] : x \in Opt(InNames)}
    \cup {[BasePatient(id) EXCEPT !.city = x] : x \in Opt(InCities)}
    \cup {[BasePatient(id) EXCEPT !.age = x] : x \in Opt(InAges)}
    \cup {[BasePatient(id) EXCEPT !.gender = x] : x \in Opt(InGenders)}
    \cup {[BasePatient(id) EXCEPT !.height = x] : x \in Opt(InHeights)}
    \cup {[BasePatient(id) EXCEPT !.weight = x] : x \in Opt(InWeights)}
    \cup {[BasePatient(id) EXCEPT !.bmi = <<1000>>, !.verdict = <<"Normal weight">>]}

CreateBodies == UNION {BodiesFor(id) : id \in Ids}

Sent(S) == {<<>>, << <<>> >>} \cup {<< <<v>> >> : v \in S}

NoUpdate ==
    [name |-> <<>>, city |-> <<>>, age |-> <<>>, gender |-> <<>>,
     height |-> <<>>, weight |-> <<>>, bmi |-> <<>>, verdict |-> <<>>]

\* the bodies PUT /update is tried with: no field, one field (sent as null
\* or as each input value), a height and a weight together, or a weight
\* with the keys bmi and verdict, which are no fields of PatientUpdate
UpdateBodies ==
    {[NoUpdate EXCEPT !.name = x] : x \in Sent(InNames)}
    \cup {[NoUpdate EXCEPT !.city = x] : x \in Sent(InCities)}
    \cup {[NoUpdate EXCEPT !.age = x] : x \in Sent(InAges)}
    \cup {[NoUpdate EXCEPT !.gender = x] : x \in Sent(InGenders)}
    \cup {[NoUpdate EXCEPT !.height = x] : x \in Sent(InHeights)}
    \cup {[NoUpdate EXCEPT !.weight = x] : x \in Sent(InWeights)}
    \cup {[NoUpdate EXCEPT !.height = << <<h>> >>, !.weight = << <<w>> >>] :
              h \in InHeights \ {0}, w \in InWeights \ {0}}
    \cup {[NoUpdate EXCEPT !.weight = << <<50>> >>, !.bmi = << <<1000>> >>,
                           !.verdict = << <<"Normal weight">> >>]}

----------------------------------------------------------------------------
(* Sequential requests: each handler runs from load_data to save_data       *)
(* with no other request in between.                                       *)

Threads == {1, 2}

Idle == [t \in Threads |-> "idle"]
NoJobs == [t \in Threads |-> <<>>]
NoData == [t \in Threads |-> <<>>]

NoRequest == [op |-> "none"]

Init ==
    /\ store = <<>>
    /\ fstate = "ok"
    /\ req = NoRequest
    /\ res = Response(0, "", NoBody)
    /\ pc = Idle
    /\ job = NoJobs
    /\ data = NoData
    /\ log = <<>>

\* what a read keeps of the request handled before it
Summary ==
    IF req.op = "none" THEN [op |-> "none", id |-> "", status |-> 0]
    ELSE [op |-> req.op, id |-> req.id, status |-> res.status]

\* save_data(data): json.dump into the file opened with 'w': the file holds
\* data, whole, and nothing of the document it held before
save_data(d) == d

Apply(out) ==
    /\ res' = out.response
    /\ store' = IF out.save THEN save_data(out.doc) ELSE store
    /\ UNCHANGED <<fstate, pc, job, data, log>>

CreatePatient ==
    \E p \in CreateBodies :
        /\ req' = [op |-> "create", id |-> p.id, body |-> p]
        /\ Apply(create_patient(store, p))

UpdatePatient ==
    \E id \in Ids, u \in UpdateBodies :
        /\ req' = [op |-> "update", id |-> id, body |-> u]
        /\ Apply(update_patient(store, id, u))

DeletePatient ==
    \E id \in Ids :
        /\ req' = [op |-> "delete", id |-> id, body |-> <<>>]
        /\ Apply(delete_patient(store, id))

ViewPatient ==
    \E id \in Ids :
        /\ req' = [op |-> "get", id |-> id, body |-> <<>>, prev |-> Summary]
        /\ res' = view_patient(store, id)
        /\ UNCHANGED <<store, fstate, pc, job, data, log>>

Next == CreatePatient \/ UpdatePatient \/ DeletePatient \/ ViewPatient

Spec == Init /\ [][Next]_vars

----------------------------------------------------------------------------
(* A store found on disk: patients.json is read as it is, so a record in   *)
(* it need not satisfy the Patient model.                                  *)

LegacyRecords ==
    {[name |-> "Ann", city |-> "Pune", age |-> a, gender |-> g,
      height |-> 170, weight |-> 72, bmi |-> 2491, verdict |-> "Obesity"] :
         a \in InAges, g \in InGenders}

InitLegacy ==
    /\ store \in {<<[id |-> "P001", rec |-> r]>> : r \in LegacyRecords}
    /\ fstate = "ok"
    /\ req = NoRequest
    /\ res = Response(0, "", NoBody)
    /\ pc = Idle
    /\ job = NoJobs
    /\ data = NoData
    /\ log = <<>>

NextLegacy == UpdatePatient \/ DeletePatient \/ ViewPatient

SpecLegacy == InitLegacy /\ [][NextLegacy]_vars

----------------------------------------------------------------------------
(* GET /sort *)

Reverse(s) == [i \in 1..Len(s) |-> s[Len(s) + 1 - i]]

\* x.get(sort_by, 0)
SortKey(x, sort_by) == IF sort_by \in DOMAIN x THEN x[sort_by] ELSE 0

\* s is sorted: x goes after every element whose key is not greater
RECURSIVE InsertSorted(_, _, _)
InsertSorted(s, x, sort_by) ==
    IF s = <<>> THEN <<x>>
    ELSE IF SortKey(x, sort_by) < SortKey(Head(s), sort_by) THEN <<x>> \o s
    ELSE <<Head(s)>> \o InsertSorted(Tail(s), x, sort_by)

\* a stable ascending sort
RECURSIVE SortAscending(_, _)
SortAscending(s, sort_by) ==
    IF s = <<>> THEN <<>>
    ELSE InsertSorted(SortAscending(SubSeq(s, 1, Len(s) - 1), sort_by), s[Len(s)], sort_by)

SortedReversedAfter(s, sort_by, reverse) ==
    IF reverse THEN Reverse(SortAscending(s, sort_by)) ELSE SortAscending(s, sort_by)

\* sorted(values, key=..., reverse=reverse): stable in both directions; with
\* reverse the list is reversed, sorted and reversed back
Sorted(s, sort_by, reverse) ==
    IF reverse THEN Reverse(SortAscending(Reverse(s), sort_by))
    ELSE SortAscending(s, sort_by)

valid_fields == {"height", "weight", "bmi"}

\* order: <<>> when the query gives none, and the default 'asc' applies
sort_patient(d, sort_by, order) ==
    LET o == IF order = <<>> THEN "asc" ELSE order[1]
    IN  IF sort_by \notin valid_fields
        THEN Response(400, "Invalid sort please select from valid_fields", NoBody)
        ELSE IF o \notin {"asc", "desc"}
        THEN Response(400, "Order should be asc or desc", NoBody)
        ELSE Response(200, "", Sorted(Values(d), sort_by, o = "desc"))

InSortBy == {"height", "weight", "bmi", "age"}
InOrder == {<<>>, <<"asc">>, <<"desc">>, <<"down">>}

SortPatient ==
    \E sort_by \in InSortBy, order \in InOrder :
        /\ req' = [op |-> "sort", sort_by |-> sort_by, order |-> order]
        /\ res' = sort_patient(store, sort_by, order)
        /\ UNCHANGED <<store, fstate, pc, job, data, log>>

MaxSortLen == 3

SortIds == <<"P001", "P002", "P003", "P004", "P005">>

\* the records the sorted stores hold: as create stores them
SortRecords ==
    {ModelDump([name |-> <<n>>, city |-> <<"Pune">>, age |-> <<30>>,
                gender |-> <<"male">>, height |-> <<h>>, weight |-> <<w>>], NoDerived) :
         n \in {"Ann", "Bea"}, h \in InHeights \ {0}, w \in InWeights \ {0}}

SortStores ==
    UNION {{[i \in 1..n |-> [id |-> SortIds[i], rec |-> rs[i]]] : rs \in [1..n -> SortRecords]} :
               n \in 0..MaxSortLen}

InitSort ==
    /\ store \in SortStores
    /\ fstate = "ok"
    /\ req = NoRequest
    /\ res = Response(0, "", NoBody)
    /\ pc = Idle
    /\ job = NoJobs
    /\ data = NoData
    /\ log = <<>>

NextSort == SortPatient

SpecSort == InitSort /\ [][NextSort]_vars

----------------------------------------------------------------------------
(* The verdict of every bmi *)

MaxBmi == 3200

InitVerdict ==
    /\ store = <<>>
    /\ fstate = "ok"
    /\ req \in {[op |-> "verdict", bmi |-> b] : b \in 0..MaxBmi}
    /\ res = Response(0, "", NoBody)
    /\ pc = Idle
    /\ job = NoJobs
    /\ data = NoData
    /\ log = <<>>

Classify ==
    /\ res.status = 0
    /\ res' = Response(200, "", Verdict(req.bmi))
    /\ UNCHANGED <<store, fstate, req, pc, job, data, log>>

NextVerdict == Classify

SpecVerdict == InitVerdict /\ [][NextVerdict]_vars

----------------------------------------------------------------------------
(* Two concurrent mutating requests.  The handlers are plain `def`s, which  *)
(* FastAPI runs on worker threads, so a second request may run between any *)
(* two file operations of the first.  load_data is one step; save_data is  *)
(* two: open(..., 'w') empties the file, and the dump reaches the file when *)
(* it is closed.                                                           *)

RaceJobs ==
    {[op |-> "create", id |-> id, body |-> BasePatient(id)] : id \in Ids}
    \cup {[op |-> "update", id |-> "P001",
           body |-> [NoUpdate EXCEPT !.weight = << <<50>> >>]],
          [op |-> "delete", id |-> "P001", body |-> <<>>]}

Handle(d, j) ==
    CASE j.op = "create" -> create_patient(d, j.body)
      [] j.op = "update" -> update_patient(d, j.id, j.body)
      [] j.op = "delete" -> delete_patient(d, j.id)

RaceStores == {<<>>, <<[id |-> "P001", rec |-> ModelDump(RawOf(BasePatient("P001")), NoDerived)]>>}

InitRace ==
    /\ store \in RaceStores
    /\ fstate = "ok"
    /\ req = [op |-> "race", store0 |-> store]
    /\ res = [t \in Threads |-> Response(0, "", NoBody)]
    /\ pc = [t \in Threads |-> "load"]
    /\ job \in [Threads -> RaceJobs]
    /\ data = NoData
    /\ log = <<>>

\* a load that finds the dictionary another request has loaded and works on
\* that one, as a dictionary kept in memory between requests would be
LoadCached(t) ==
    /\ pc[t] = "load"
    /\ log' = Append(log, <<t, "load">>)
    /\ IF fstate # "ok"
       THEN /\ res' = [res EXCEPT ![t] = Response(500, "JSONDecodeError", NoBody)]
            /\ pc' = [pc EXCEPT ![t] = "done"]
            /\ data' = data
       ELSE LET cached == {o \in Threads : data[o] # <<>>}
                doc == IF cached = {} THEN store ELSE data[CHOOSE o \in cached : TRUE].doc
                out == Handle(doc, job[t])
            IN  /\ data' = [data EXCEPT ![t] = out]
                /\ IF out.save
                   THEN pc' = [pc EXCEPT ![t] = "open"] /\ res' = res
                   ELSE /\ pc' = [pc EXCEPT ![t] = "done"]
                        /\ res' = [res EXCEPT ![t] = out.response]
    /\ UNCHANGED <<store, fstate, req, job>>

\* data = load_data(), and the handler up to save_data or to its raise
Load(t) ==
    /\ pc[t] = "load"
    /\ log' = Append(log, <<t, "load">>)
    /\ IF fstate # "ok"
       THEN /\ res' = [res EXCEPT ![t] = Response(500, "JSONDecodeError", NoBody)]
            /\ pc' = [pc EXCEPT ![t] = "done"]
            /\ data' = data
       ELSE LET out == Handle(store, job[t])
            IN  /\ data' = [data EXCEPT ![t] = out]
                /\ IF out.save
                   THEN pc' = [pc EXCEPT ![t] = "open"] /\ res' = res
                   ELSE /\ pc' = [pc EXCEPT ![t] = "done"]
                        /\ res' = [res EXCEPT ![t] = out.response]
    /\ UNCHANGED <<store, fstate, req, job>>

\* open('patients.json', 'w')
Open(t) ==
    /\ pc[t] = "open"
    /\ log' = Append(log, <<t, "open">>)
    /\ store' = <<>>
    /\ fstate' = "truncated"
    /\ pc' = [pc EXCEPT ![t] = "write"]
    /\ UNCHANGED <<req, res, job, data>>

\* the other thread wrote its document after this thread emptied the file
Overwrites(t) ==
    \E i, j \in 1..Len(log) :
        i < j /\ log[i] = <<t, "open">> /\ log[j][1] # t /\ log[j][2] = "write"

\* json.dump(data, f) and the close of f, then the handler's return.  The
\* bytes go to the start of the file: over an empty file they are the whole
\* file; over a document another thread wrote meanwhile they leave its tail
\* in place when this document is the shorter one, and the file no longer
\* parses.  Lengths in bytes are not modelled: both outcomes are possible.
Write(t) ==
    /\ pc[t] = "write"
    /\ log' = Append(log, <<t, "write">>)
    /\ \/ /\ store' = save_data(data[t].doc)
          /\ fstate' = "ok"
       \/ /\ Overwrites(t)
          /\ store # data[t].doc
          /\ store' = <<>>
          /\ fstate' = "corrupt"
    /\ pc' = [pc EXCEPT ![t] = "done"]
    /\ res' = [res EXCEPT ![t] = data[t].response]
    /\ UNCHANGED <<req, job, data>>

NextRace == \E t \in Threads : Load(t) \/ Open(t) \/ Write(t)

SpecRace == InitRace /\ [][NextRace]_vars

----------------------------------------------------------------------------
(* What the claims are stated with *)

Abs(x) == IF x < 0 THEN -x ELSE x

\* b is weight / (height/100)^2 to the nearest hundredth
NearestHundredth(b, height, weight) ==
    2 * Abs(b * height * height - weight * 1000000) <= height * height

\* the bucket table of the record model
Bucket(b) ==
    CASE b < 1850 -> "Underweight"
      [] b >= 1850 /\ b < 2490 -> "Normal weight"
      [] b >= 2500 /\ b < 2990 -> "Overweight"
      [] OTHER -> "Obesity"

Derived(r) ==
    /\ NearestHundredth(r.bmi, r.height, r.weight)
    /\ r.verdict = Bucket(r.bmi)

Records(d) == {d[i].rec : i \in 1..Len(d)}

Success == {200, 201}

\* C1: in every state reached from the empty store by create, update and
\* delete requests, every stored record's bmi is weight / height^2 rounded
\* to two decimals of its own stored height and weight, and its verdict is
\* the bucket of that bmi.
C1_DerivedConsistent == \A r \in Records(store) : Derived(r)

\* C1 witness: an update that sent a new weight together with a bmi and a
\* verdict of its own has been stored, with the bmi and verdict of the new
\* weight.
C1_Witness ==
    /\ req.op = "update" /\ res.status = 200
    /\ req.body.weight = << <<50>> >>
    /\ req.body.bmi = << <<1000>> >>
    /\ req.body.verdict = << <<"Normal weight">> >>
    /\ Lookup(store, req.id).weight = 50
    /\ Lookup(store, req.id).height = 170
    /\ Lookup(store, req.id).bmi = 1730
    /\ Lookup(store, req.id).verdict = "Underweight"

RangesHold(r) ==
    /\ r.age > 0 /\ r.age < 120
    /\ r.gender \in {"male", "female", "other"}
    /\ r.height > 0
    /\ r.weight > 0

\* the request carries an age of 0 or 120, a height of 0 or gender "unknown"
CarriesOutOfRange ==
    \/ /\ req.op = "create"
       /\ \/ req.body.age \in {<<0>>, <<120>>}
          \/ req.body.height = <<0>>
          \/ req.body.gender = <<"unknown">>
    \/ /\ req.op = "update"
       /\ \/ req.body.age \in {<< <<0>> >>, << <<120>> >>}
          \/ req.body.height = << <<0>> >>
          \/ req.body.gender = << <<"unknown">> >>

CarriesEmptyString ==
    \/ req.op = "create" /\ (req.body.name = <<"">> \/ req.body.city = <<"">>)
    \/ req.op = "update" /\ (req.body.name = << <<"">> >> \/ req.body.city = << <<"">> >>)

\* C2 as claimed: every stored record has a non-empty name and city and its
\* other fields in range, and a create or update carrying an empty name or
\* city, age 0 or 120, height 0 or gender "unknown" is rejected.
C2_AsClaimed ==
    /\ \A r \in Records(store) : r.name # "" /\ r.city # "" /\ RangesHold(r)
    /\ (CarriesOutOfRange \/ CarriesEmptyString) => res.status \notin Success

\* C2 amended: every stored record has 0 < age < 120, a gender among male,
\* female and other, height > 0 and weight > 0 (its name and city are
\* strings, possibly empty), and a create or update carrying age 0 or 120,
\* height 0 or gender "unknown" is rejected.
C2_ConstraintsHold ==
    /\ \A r \in Records(store) : RangesHold(r)
    /\ CarriesOutOfRange => res.status \notin Success

\* C2 witness: a create carrying an empty name was accepted and is stored.
C2_Witness ==
    /\ req.op = "create" /\ res.status = 201
    /\ req.body.name = <<"">>
    /\ Lookup(store, req.id).name = ""

\* C4: a successful update changes, in its record, only the fields it sent
\* (to the values sent) and the re-derived bmi and verdict; the fields it
\* did not send, every other record and the set of ids stay as they were.
C4_UpdateFrame ==
    [][(req'.op = "update" /\ res'.status = 200) =>
          LET u == req'.body
              old == Lookup(store, req'.id)
              new == Lookup(store', req'.id)
          IN  /\ req'.id \in Keys(store)
              /\ Keys(store') = Keys(store)
              /\ Len(store') = Len(store)
              /\ \A id \in Keys(store) \ {req'.id} : Lookup(store', id) = Lookup(store, id)
              /\ new.name = (IF u.name = <<>> THEN old.name ELSE u.name[1][1])
              /\ new.city = (IF u.city = <<>> THEN old.city ELSE u.city[1][1])
              /\ new.age = (IF u.age = <<>> THEN old.age ELSE u.age[1][1])
              /\ new.gender = (IF u.gender = <<>> THEN old.gender ELSE u.gender[1][1])
              /\ new.height = (IF u.height = <<>> THEN old.height ELSE u.height[1][1])
              /\ new.weight = (IF u.weight = <<>> THEN old.weight ELSE u.weight[1][1])
              /\ Derived(new)]_vars

\* C4 witness: with two records stored, an update of the second record that
\* sent only a name has succeeded.
C4_Witness ==
    /\ req.op = "update" /\ res.status = 200
    /\ req.body = [NoUpdate EXCEPT !.name = << <<"">> >>]
    /\ Len(store) = 2
    /\ store[2].id = req.id
    /\ store[2].rec.name = "" /\ store[2].rec.city = "Pune"
    /\ store[1].rec.name = "Ann"

MeetsConstraints(raw) ==
    /\ \A f \in {"name", "city", "age", "gender", "height", "weight"} : raw[f] # <<>>
    /\ raw.age[1] \in 1..119
    /\ raw.gender[1] \in {"male", "female", "other"}
    /\ raw.height[1] >= 1
    /\ raw.weight[1] >= 1

UniqueIds(d) == \A i, j \in 1..Len(d) : d[i].id = d[j].id => i = j

Conflict == Response(400, "Patient with this ID already exists", NoBody)

\* C5 as claimed: every create whose id is a key of the store fails with the
\* conflict error and leaves the store as it was.
C5_AsClaimed ==
    [][(req'.op = "create" /\ req'.id \in Keys(store)) =>
          (res' = Conflict /\ store' = store)]_vars

\* C5 amended: a create whose id is a key of the store leaves the store as it
\* was and fails: with the conflict error when its fields are valid, with a
\* validation error when they are not.  Ids stay unique.
C5_ConflictKeepsStore ==
    [][(req'.op = "create" /\ req'.id \in Keys(store)) =>
          /\ store' = store
          /\ UniqueIds(store')
          /\ IF MeetsConstraints(req'.body) THEN res' = Conflict
             ELSE res'.status = 422]_vars

\* C5 witness: a create of a stored id with valid fields that differ from the
\* stored record was refused with the conflict error.
C5_Witness ==
    /\ req.op = "create" /\ res = Conflict
    /\ req.id \in Keys(store)
    /\ req.body.weight = <<50>>
    /\ Lookup(store, req.id).weight = 72

UpdateMeetsConstraints(u) ==
    /\ u.age \in {<<>>, << <<>> >>} \/ u.age[1][1] \in 1..119
    /\ u.gender \in {<<>>, << <<>> >>} \/ u.gender[1][1] \in {"male", "female", "other"}
    /\ u.height \in {<<>>, << <<>> >>} \/ u.height[1][1] >= 1
    /\ u.weight \in {<<>>, << <<>> >>} \/ u.weight[1][1] >= 1

\* C6 as claimed: get, update and delete of an id that is no key of the store
\* each fail with the not-found error and leave the store as it was.
C6_AsClaimed ==
    [][(req'.op \in {"get", "update", "delete"} /\ req'.id \notin Keys(store)) =>
          (res' = NotFound /\ store' = store)]_vars

\* C6 amended: get, update and delete of an id that is no key of the store
\* leave the store as it was and fail with the not-found error, except that
\* an update whose body fails the update model's own field checks fails with
\* a validation error instead.
C6_NotFoundKeepsStore ==
    [][(req'.op \in {"get", "update", "delete"} /\ req'.id \notin Keys(store)) =>
          /\ store' = store
          /\ IF req'.op = "update" /\ ~UpdateMeetsConstraints(req'.body)
             THEN res'.status = 422
             ELSE res' = NotFound]_vars

\* C6 witness: with a record stored, an update of an id that is not stored,
\* sending a null field, was answered not-found.
C6_Witness ==
    /\ req.op = "update" /\ res = NotFound
    /\ req.body.name = << <<>> >>
    /\ req.id \notin Keys(store)
    /\ Len(store) = 1

\* C8: a get that follows a successful create of the same id returns the
\* submitted name, city, age, gender, height and weight with the bmi and
\* verdict derived from them, and no id field.
C8_RoundTrip ==
    [][(req.op = "create" /\ res.status = 201 /\ req'.op = "get" /\ req'.id = req.id) =>
          /\ res'.status = 200
          /\ DOMAIN res'.body =
                 {"name", "city", "age", "gender", "height", "weight", "bmi", "verdict"}
          /\ <<res'.body.name>> = req.body.name
          /\ <<res'.body.city>> = req.body.city
          /\ <<res'.body.age>> = req.body.age
          /\ <<res'.body.gender>> = req.body.gender
          /\ <<res'.body.height>> = req.body.height
          /\ <<res'.body.weight>> = req.body.weight
          /\ Derived(res'.body)]_vars

\* C8 witness: a get of the id created by the request before it has
\* returned the record, here the second of two.
C8_Witness ==
    /\ req.op = "get" /\ res.status = 200
    /\ req.prev = [op |-> "create", id |-> req.id, status |-> 201]
    /\ Len(store) = 2
    /\ res.body.weight = 50 /\ res.body.bmi = 1730

\* the merged field set of an update: the value sent (null included) for
\* each field sent, the stored value for each field not sent
MergedAsSpecified(old, u) ==
    [name   |-> IF u.name = <<>> THEN <<old.name>> ELSE u.name[1],
     city   |-> IF u.city = <<>> THEN <<old.city>> ELSE u.city[1],
     age    |-> IF u.age = <<>> THEN <<old.age>> ELSE u.age[1],
     gender |-> IF u.gender = <<>> THEN <<old.gender>> ELSE u.gender[1],
     height |-> IF u.height = <<>> THEN <<old.height>> ELSE u.height[1],
     weight |-> IF u.weight = <<>> THEN <<old.weight>> ELSE u.weight[1]]

ValidationErrors ==
    {Response(422, "RequestValidationError", NoBody), Response(500, "ValidationError", NoBody)}

\* C7: an update of a stored id succeeds exactly when the whole merged record
\* meets every constraint; when the merged record violates one, in a field
\* the update sent (as a value or as null) or in one it did not touch, the
\* request fails with a validation error and the store is as it was.
C7_UpdateAllOrNothing ==
    [][(req'.op = "update" /\ req'.id \in Keys(store)) =>
          LET m == MergedAsSpecified(Lookup(store, req'.id), req'.body)
          IN  IF MeetsConstraints(m)
              THEN /\ res'.status = 200
                   /\ <<Lookup(store', req'.id).weight>> = m.weight
                   /\ <<Lookup(store', req'.id).name>> = m.name
              ELSE /\ res' \in ValidationErrors
                   /\ store' = store]_vars

\* C7 witness: the stored record has age 0; an update that sent only a valid
\* weight failed with a validation error and the stored weight is the old one.
C7_Witness ==
    /\ req.op = "update"
    /\ req.body = [NoUpdate EXCEPT !.weight = << <<50>> >>]
    /\ res = Response(500, "ValidationError", NoBody)
    /\ Lookup(store, req.id).age = 0
    /\ Lookup(store, req.id).weight = 72

\* C3: for every bmi (in hundredths) the verdict is Underweight below 18.5,
\* Normal weight from 18.5 to below 24.9, Overweight from 25 to below 29.9,
\* and Obesity otherwise: from 29.9 on and in the gap from 24.9 to below 25.
C3_VerdictTable ==
    res.status = 200 =>
        LET b == req.bmi
            v == res.body
        IN  /\ v \in {"Underweight", "Normal weight", "Overweight", "Obesity"}
            /\ (v = "Underweight") <=> (b < 1850)
            /\ (v = "Normal weight") <=> (b >= 1850 /\ b < 2490)
            /\ (v = "Overweight") <=> (b >= 2500 /\ b < 2990)
            /\ (v = "Obesity") <=> (b >= 2990 \/ (b >= 2490 /\ b < 2500))

\* C3 witness: a bmi of 24.95, in the gap, has been given the verdict Obesity.
C3_Witness == req.op = "verdict" /\ req.bmi = 2495 /\ res.body = "Obesity"

\* out holds the records of in, ordered by key (descending when desc), the
\* records of equal key in the order they have in `in`
StablySorted(out, in, sort_by, desc) ==
    \E p \in Permutations(1..Len(in)) :
        /\ out = [i \in 1..Len(in) |-> in[p[i]]]
        /\ \A i, j \in 1..Len(in) :
              i < j =>
                 LET a == in[p[i]][sort_by]
                     b == in[p[j]][sort_by]
                 IN  /\ IF desc THEN a >= b ELSE a <= b
                     /\ a = b => p[i] < p[j]

\* C9: sort by height, weight or bmi in order asc (also when no order is
\* given) or desc returns all the stored records, non-decreasing for asc and
\* non-increasing for desc, records of equal value in store order in both
\* directions; any other field or order fails with status 400; the store is
\* never changed.
C9_SortCorrect ==
    [][req'.op = "sort" =>
          /\ store' = store
          /\ IF /\ req'.sort_by \in {"height", "weight", "bmi"}
                /\ req'.order \in {<<>>, <<"asc">>, <<"desc">>}
             THEN /\ res'.status = 200
                  /\ StablySorted(res'.body, Values(store), req'.sort_by,
                                  req'.order = <<"desc">>)
             ELSE res'.status = 400 /\ res'.body = NoBody]_vars

\* C9 witness: three records, the first and the last of equal height and the
\* middle one taller, were sorted by height descending: the taller one is
\* first and the two equal ones keep their store order.
C9_Witness ==
    /\ req.op = "sort" /\ req.sort_by = "height" /\ req.order = <<"desc">>
    /\ Len(store) = 3
    /\ store[1].rec.height = 150 /\ store[2].rec.height = 170 /\ store[3].rec.height = 150
    /\ store[1].rec # store[3].rec
    /\ res.body = <<store[2].rec, store[1].rec, store[3].rec>>

\* both requests loaded before either began to save, and the saves followed
\* one another, the one of thread `last` second
LoadLoadSaveSave(last) ==
    /\ Len(log) = 6
    /\ log[1][2] = "load" /\ log[2][2] = "load"
    /\ log[3][1] # last /\ log[3][2] = "open"
    /\ log[4][1] # last /\ log[4][2] = "write"
    /\ log[5] = <<last, "open">>
    /\ log[6] = <<last, "write">>

\* C10: when two mutating requests both load before either saves and then
\* save one after the other, both return success and the store is what the
\* request that saved last made of the document both loaded: the effect of
\* the other request is lost (a record it created is not in the store).
C10_LastSaveWins ==
    \A first, last \in Threads :
        (first # last /\ LoadLoadSaveSave(last)) =>
            /\ \A t \in Threads : pc[t] = "done" /\ res[t].status \in Success
            /\ fstate = "ok"
            /\ store = Handle(req.store0, job[last]).doc
            /\ (job[first].op = "create" /\ job[first].id # job[last].id)
                   => job[first].id \notin Keys(store)

\* C10 witness: two concurrent creates of different ids on the empty store
\* both returned 201 and the store holds only the record of the second.
C10_Witness ==
    /\ req.op = "race" /\ req.store0 = <<>>
    /\ LoadLoadSaveSave(2)
    /\ job[1].op = "create" /\ job[1].id = "P001"
    /\ job[2].op = "create" /\ job[2].id = "P002"
    /\ res[1].status = 201 /\ res[2].status = 201
    /\ Keys(store) = {"P002"}

====
